---- MODULE Spec2Model ----
(***************************************************************************)
(* Model of the campaign execution engine of campaign-wired-backed:        *)
(* executeCampaign (src/src/controllers/campaignController.ts) together    *)
(* with the part of EmailService.sendEmail                                 *)
(* (src/src/services/emailService.ts) that decides what the email sender   *)
(* resolves or rejects with.                                               *)
(*                                                                         *)
(* One behaviour is one execution of executeCampaign for one request.      *)
(* Every await of the handler is a pair of steps: the step that makes the  *)
(* call and suspends, and the step in which the promise settles.           *)
(***************************************************************************)
EXTENDS Integers, Sequences, FiniteSets, TLC

(* ------------------------------ bounds --------------------------------- *)

\* largest number of contacts in a request
MaxContacts == 2

(* ------------------------- program constants --------------------------- *)

\* delayBetweenContacts = 3000 in the destructuring of req.body
DefaultDelay == 3000

\* const validChannels = ['call', 'sms', 'email']
validChannels == <<"call", "sms", "email">>

NoEmailError == "No email provided for contact"
NoPhoneError == "No phone provided for contact"
NoVonageError == "VONAGE_VIRTUAL_NUMBER not configured"
MissingContactsError == "Missing or empty \"contacts\" array"
MissingChannelsError == "Missing or empty \"channels\" array"
MissingSmtpEnvError == "Missing SMTP_USER or SMTP_PASS in environment variables"
UnknownError == "Unknown error"

(* ---------------------------- JS values -------------------------------- *)

\* values a promise can reject with: an Error carrying a message, a thrown
\* string, and undefined/null
ErrorValue(m) == [type |-> "Error", text |-> m]
StringValue(s) == [type |-> "string", text |-> s]
UndefinedValue == [type |-> "undefined", text |-> ""]

\* the TypeError raised by reading a property of undefined/null
TypeErrorValue(prop) == [type |-> "Error", text |-> "Cannot read properties of null or undefined: " \o prop]

\* err.message
MessageOf(err) == IF err.type = "Error" THEN err.text ELSE ""

\* String(err)
StringOf(err) ==
    CASE err.type = "Error" -> IF err.text = "" THEN "Error" ELSE "Error: " \o err.text
      [] err.type = "string" -> err.text
      [] OTHER -> "undefined"

\* truthiness of a string-valued field (absent and "" are both falsy)
Absent == ""
Truthy(s) == s # Absent

Range(s) == {s[k] : k \in DOMAIN s}

\* arr.includes(x)
includes(arr, x) == \E k \in DOMAIN arr : arr[k] = x

(* ------------------------------ inputs --------------------------------- *)

\* contacts[i] of a JSON body: null, or an object with optional email/phone
NullContact == [kind |-> "null"]

ContactValues(n) ==
    {NullContact} \cup
    {[kind |-> "object", name |-> n, email |-> e, phone |-> p] :
        e \in {Absent, "a@x.com"}, p \in {Absent, "15550100"}}

AllContactValues == UNION {ContactValues(n) : n \in 1..MaxContacts}

ContactArrays ==
    UNION {{s \in [1..n -> AllContactValues] : \A k \in 1..n : s[k] \in ContactValues(k)} :
              n \in 0..MaxContacts}

\* req.body.contacts: absent, a non-array value, or an array
ContactsFields ==
    {[kind |-> "undefined", items |-> <<>>], [kind |-> "notArray", items |-> <<>>]} \cup
    {[kind |-> "array", items |-> s] : s \in ContactArrays}

\* req.body.channels arrays: every array of at most one entry, the three
\* pairs of channels, all three channels in an order other than the order the
\* loop body handles them in, arrays that repeat a channel, and arrays that
\* hold an unknown channel before, after and between known ones
ChannelValues == {"call", "sms", "email", "fax", "pager"}

ChannelArrays ==
    {<<>>} \cup {<<c>> : c \in ChannelValues} \cup
    {<<"email", "call">>, <<"sms", "email">>, <<"call", "sms">>,
     <<"sms", "call", "email">>,
     <<"email", "email">>, <<"sms", "call", "sms">>,
     <<"fax", "email">>, <<"email", "fax">>, <<"sms", "pager", "fax">>}

\* req.body.channels: absent, a non-array value, or an array
ChannelsFields ==
    {[kind |-> "undefined", items |-> <<>>], [kind |-> "notArray", items |-> <<>>]} \cup
    {[kind |-> "array", items |-> s] : s \in ChannelArrays}

\* req.body.delayBetweenContacts: <<>> when the request omits it
DelayFields == {<<>>, <<500>>}

Requests ==
    [contacts : ContactsFields, channels : ChannelsFields,
     delayBetweenContacts : DelayFields, user : BOOLEAN]

\* process.env as far as executeCampaign and sendEmail read it
Environments == [VONAGE_VIRTUAL_NUMBER : BOOLEAN, SMTP_CREDENTIALS : BOOLEAN]

(* --------------------- behaviour of the providers ---------------------- *)

OkValue == [type |-> "ok", text |-> ""]

\* what client.voice.createOutboundCall settles with
CallBehaviours == {OkValue, ErrorValue("call rejected"), UndefinedValue}

\* what client.messages.send settles with
SmsBehaviours == {OkValue, StringValue("throttled"), UndefinedValue}

\* what transporter.verify() and transporter.sendMail() settle with
VerifyBehaviours == {OkValue, ErrorValue("connect ECONNREFUSED"), UndefinedValue}
SendMailBehaviours == {OkValue, ErrorValue("550 mailbox unavailable")}

\* what getUserSmtpConfig settles with: a configuration, null, or an Error
LookupBehaviours == {"config", "null", "throws"}

(* ----------------- EmailService (services/emailService.ts) -------------- *)

\* results.filter((r) => r.success).length
successful(rs) == Cardinality({k \in DOMAIN rs : rs[k].success})

\* results.filter((r) => !r.success).length
failed(rs) == Cardinality({k \in DOMAIN rs : ~rs[k].success})

\* one element of emailPromises: the try/catch around transporter.sendMail
sendOne(recipient, sendMailBehaviour) ==
    IF sendMailBehaviour = OkValue
    THEN [success |-> TRUE, recipient |-> recipient, messageId |-> "<id>"]
    ELSE [success |-> FALSE, recipient |-> recipient,
          error |-> IF sendMailBehaviour.type = "Error"
                    THEN sendMailBehaviour.text ELSE UnknownError]

\* the value sendEmail resolves with once every element of emailPromises settled
emailSummary(rs) ==
    [total_rejected_recipients |-> failed(rs),
     total_accepted_recipients |-> successful(rs),
     results |-> rs]

\* createTransporter: the custom transporter is verified on every call, the
\* default one only while the service is not initialised; a failed verify
\* rejects with whatever verify() rejected with
createTransporter(cfg, initialised, verifyBehaviour) ==
    IF cfg = "config"
    THEN [threw |-> verifyBehaviour # OkValue, error |-> verifyBehaviour,
          transporter |-> "custom", isInitialized |-> initialised]
    ELSE IF ~initialised
         THEN [threw |-> verifyBehaviour # OkValue, error |-> verifyBehaviour,
               transporter |-> "default", isInitialized |-> (verifyBehaviour = OkValue)]
         ELSE [threw |-> FALSE, error |-> OkValue,
               transporter |-> "default", isInitialized |-> TRUE]

\* EmailService.sendEmail for the recipients `to` (their addresses): what the
\* returned promise settles with, and the service's isInitialized afterwards
sendEmail(to, cfg, environment, initialised, verifyBehaviour, sendMailBehaviours) ==
    LET t == createTransporter(cfg, initialised, verifyBehaviour)
    IN  IF t.threw
        THEN [threw |-> TRUE, error |-> t.error, value |-> emailSummary(<<>>),
              isInitialized |-> t.isInitialized]
        ELSE IF cfg # "config" /\ ~environment.SMTP_CREDENTIALS
        THEN [threw |-> TRUE, error |-> ErrorValue(MissingSmtpEnvError),
              value |-> emailSummary(<<>>), isInitialized |-> t.isInitialized]
        ELSE [threw |-> FALSE, error |-> OkValue,
              value |-> emailSummary([k \in DOMAIN to |-> sendOne(to[k], sendMailBehaviours[k])]),
              isInitialized |-> t.isInitialized]

(* ------- vonageService.createOutboundCall / messagesService.sendSms ----- *)

\* both return the provider client's promise unchanged
createOutboundCall(behaviour) ==
    IF behaviour = OkValue
    THEN [threw |-> FALSE, error |-> OkValue, value |-> [provider |-> "voice"]]
    ELSE [threw |-> TRUE, error |-> behaviour, value |-> [provider |-> "voice"]]

sendSms(behaviour) ==
    IF behaviour = OkValue
    THEN [threw |-> FALSE, error |-> OkValue, value |-> [provider |-> "messages"]]
    ELSE [threw |-> TRUE, error |-> behaviour, value |-> [provider |-> "messages"]]

(* -------------- executeCampaign (controllers/campaignController.ts) ----- *)

VARIABLES
    req,            \* req.body and req.user of the request being served
    env,            \* process.env
    pc,             \* the statement executeCampaign is at
    i,              \* loop index, 1-based (the code's i + 1)
    contactResult,  \* the contactResult under construction
    results,        \* the results array
    smtpConfig,     \* "null" or "config"
    isInitialized,  \* EmailService.isInitialized
    response,       \* what was sent through res, status 0 while none was
    events,         \* history of the I/O the handler started and saw settle
    rendering,      \* the messages of one contact: request, contact, what the senders got
    renderPc,       \* the channel block that renders next
    defaultTransporter, \* EmailService.defaultTransporter: 0 while unassigned, else its index in transporters
    transporters,   \* every transporter nodemailer.createTransport has made
    calls           \* the concurrent calls of sendEmail and testConnection

vars == <<req, env, pc, i, contactResult, results, smtpConfig, isInitialized,
          response, events, rendering, renderPc, defaultTransporter, transporters, calls>>

\* the variables of the concurrent use of EmailService
serviceVars == <<defaultTransporter, transporters, calls>>

\* the variables of the control flow of executeCampaign
campaignVars == <<req, env, pc, i, contactResult, results, smtpConfig, isInitialized,
                  response, events>>

contacts == req.contacts.items
channels == req.channels.items

\* delayBetweenContacts = 3000 applies when the body has no such field
delayBetweenContacts ==
    IF req.delayBetweenContacts = <<>> THEN DefaultDelay ELSE req.delayBetweenContacts[1]

EmptyResults == [c \in {} |-> [success |-> FALSE]]
NoContactResult == [contact |-> NullContact, results |-> EmptyResults]
NoResponse == [status |-> 0]

\* resolved: the awaited promise resolved; delivered: it resolved and the
\* provider accepted the message
Event(type, contact, channel, ms, resolved, delivered) ==
    [type |-> type, contact |-> contact, channel |-> channel, ms |-> ms,
     resolved |-> resolved, delivered |-> delivered]

\* contactsInvalid without the test for an empty array
contactsInvalid_noEmptyTest(field) == field.kind # "array"

\* !contacts || !Array.isArray(contacts) || contacts.length === 0
contactsInvalid(field) == field.kind # "array" \/ Len(field.items) = 0

\* !channels || !Array.isArray(channels) || channels.length === 0
channelsInvalid(field) == field.kind # "array" \/ Len(field.items) = 0

\* firstInvalidChannel reporting the last unknown channel of the array
firstInvalidChannel_last(chs) ==
    chs[CHOOSE k \in DOMAIN chs :
            /\ ~includes(validChannels, chs[k])
            /\ \A j \in (k + 1)..Len(chs) : includes(validChannels, chs[j])]

\* the channel the validation loop stops at
firstInvalidChannel(chs) ==
    chs[CHOOSE k \in DOMAIN chs :
            /\ ~includes(validChannels, chs[k])
            /\ \A j \in 1..(k - 1) : includes(validChannels, chs[j])]

invalidChannelError(ch) == "Invalid channel: " \o ch \o ". Valid: call, sms, email"

\* requested looking at the first entry of channels only
requested_firstOnly(channel) == channels[1] = channel

\* channels.includes(channel)
requested(channel) == includes(channels, channel)

\* hasDestination without the tests
hasDestination_always(contact, channel) == TRUE

\* !contact.email, !contact.phone
hasDestination(contact, channel) ==
    IF channel = "email" THEN Truthy(contact.email) ELSE Truthy(contact.phone)

missingDestinationError(channel) ==
    IF channel = "email" THEN NoEmailError ELSE NoPhoneError

\* contactResult.results.<channel> = outcome
withOutcome(cr, channel, outcome) ==
    [cr EXCEPT !.results =
        [c \in DOMAIN cr.results \cup {channel} |->
            IF c = channel THEN outcome ELSE cr.results[c]]]

\* nextStage with the call and sms blocks exchanged
nextStage_smsFirst(stage) ==
    CASE stage = "email" -> "sms"
      [] stage = "sms" -> "call"
      [] stage = "call" -> "push"

\* the order of the three channel blocks in the loop body
nextStage(stage) ==
    CASE stage = "email" -> "call"
      [] stage = "call" -> "sms"
      [] stage = "sms" -> "push"

\* push at the front of the array (unshift)
push_front(rs, cr) == <<cr>> \o rs

\* results.push(contactResult)
push(rs, cr) == Append(rs, cr)

\* needsDelay that also delays after the last contact
needsDelay_afterLast(index, n) == index <= n

\* i < contacts.length - 1
needsDelay(index, n) == index < n

\* fatalResponse that drops the accumulated results
fatalResponse_noPartial(err, rs) ==
    [status |-> 500, success |-> FALSE,
     error |-> IF Truthy(MessageOf(err)) THEN MessageOf(err) ELSE StringOf(err),
     partialResults |-> <<>>]

\* the body of the catch around executeCampaign: err?.message || String(err)
fatalResponse(err, rs) ==
    [status |-> 500, success |-> FALSE,
     error |-> IF Truthy(MessageOf(err)) THEN MessageOf(err) ELSE StringOf(err),
     partialResults |-> rs]

successMessage(n, m) ==
    "Campaign executed for " \o ToString(n) \o " contact(s) across " \o
    ToString(m) \o " channel(s)"

successResponse(rs) ==
    [status |-> 200, success |-> TRUE,
     message |-> successMessage(Len(contacts), Len(channels)), results |-> rs]

\* the body of a channel's catch: { success: false, error: err.message || String(err) };
\* reading .message of undefined or null throws a TypeError out of the catch
channelCatch(err) ==
    IF err.type = "undefined"
    THEN [threw |-> TRUE, error |-> TypeErrorValue("message"),
          outcome |-> [success |-> FALSE, error |-> ""]]
    ELSE [threw |-> FALSE, error |-> OkValue,
          outcome |-> [success |-> FALSE,
                       error |-> IF Truthy(MessageOf(err)) THEN MessageOf(err)
                                 ELSE StringOf(err)]]

Init ==
    /\ req \in Requests
    /\ env \in Environments
    /\ pc = "entry"
    /\ i = 1
    /\ contactResult = NoContactResult
    /\ results = <<>>
    /\ smtpConfig = "null"
    /\ isInitialized = FALSE
    /\ response = NoResponse
    /\ events = <<>>
    /\ rendering = <<>>
    /\ renderPc = "idle"
    /\ defaultTransporter = 0
    /\ transporters = <<>>
    /\ calls = <<>>

\* res.status(400).json({ error })
Reject(message) ==
    /\ response' = [status |-> 400, error |-> message]
    /\ pc' = "done"
    /\ UNCHANGED <<serviceVars, rendering, renderPc, req, env, i, contactResult, results, smtpConfig, isInitialized, events>>

RejectContacts ==
    /\ pc = "entry"
    /\ contactsInvalid(req.contacts)
    /\ Reject(MissingContactsError)

RejectChannels ==
    /\ pc = "entry"
    /\ ~contactsInvalid(req.contacts)
    /\ channelsInvalid(req.channels)
    /\ Reject(MissingChannelsError)

RejectInvalidChannel ==
    /\ pc = "entry"
    /\ ~contactsInvalid(req.contacts)
    /\ ~channelsInvalid(req.channels)
    /\ \E k \in DOMAIN channels : ~includes(validChannels, channels[k])
    /\ Reject(invalidChannelError(firstInvalidChannel(channels)))

\* a valid request: results = [], smtpConfig = null, and the SMTP lookup is
\* started when the request carries a user
Begin ==
    /\ pc = "entry"
    /\ ~contactsInvalid(req.contacts)
    /\ ~channelsInvalid(req.channels)
    /\ \A k \in DOMAIN channels : includes(validChannels, channels[k])
    /\ results' = <<>>
    /\ smtpConfig' = "null"
    /\ IF req.user
       THEN /\ events' = Append(events, Event("lookupStart", 0, "", 0, FALSE, FALSE))
            /\ pc' = "smtpWait"
       ELSE /\ events' = events
            /\ pc' = "loop"
    /\ UNCHANGED <<serviceVars, rendering, renderPc, req, env, i, contactResult, isInitialized, response>>

\* SmtpLookupSettle without the inner try/catch: a rejected lookup is fatal
SmtpLookupSettle_fatal ==
    /\ pc = "smtpWait"
    /\ \E b \in LookupBehaviours :
        /\ smtpConfig' = IF b = "config" THEN "config" ELSE "null"
        /\ events' = Append(events, Event("lookupEnd", 0, "", 0, b # "throws", FALSE))
        /\ IF b = "throws"
           THEN /\ response' = fatalResponse(ErrorValue("Supabase not configured"), results)
                /\ pc' = "done"
           ELSE /\ pc' = "loop"
                /\ UNCHANGED response
    /\ UNCHANGED <<serviceVars, rendering, renderPc, req, env, i, contactResult, results, isInitialized>>

\* await getUserSmtpConfig(req.user.id) settles; a rejection is only logged
SmtpLookupSettle ==
    /\ pc = "smtpWait"
    /\ \E b \in LookupBehaviours :
        /\ smtpConfig' = IF b = "config" THEN "config" ELSE "null"
        /\ events' = Append(events, Event("lookupEnd", 0, "", 0, b # "throws", FALSE))
    /\ pc' = "loop"
    /\ UNCHANGED <<serviceVars, rendering, renderPc, req, env, i, contactResult, results, isInitialized, response>>

\* Fatal that sends the 500 response and lets the loop go on
Fatal_continue(err) ==
    /\ response' = fatalResponse(err, results)
    /\ pc' = "push"

\* an exception reaches the catch around the loop: res.status(500).json(...)
Fatal(err) ==
    /\ response' = fatalResponse(err, results)
    /\ pc' = "done"

\* LoopTop that leaves the loop without sending the success response
LoopTop_noResponse ==
    /\ pc = "loop"
    /\ IF i <= Len(contacts)
       THEN /\ contactResult' = [contact |-> contacts[i], results |-> EmptyResults]
            /\ events' = Append(events, Event("contactStart", i, "", 0, FALSE, FALSE))
            /\ pc' = "email"
            /\ UNCHANGED response
       ELSE /\ pc' = "done"
            /\ UNCHANGED <<response, contactResult, events>>
    /\ UNCHANGED <<serviceVars, rendering, renderPc, req, env, i, results, smtpConfig, isInitialized>>

\* for (let i = 0; i < contacts.length; i++): either the next contactResult
\* is created or the loop is over and the success response is sent
LoopTop ==
    /\ pc = "loop"
    /\ IF i <= Len(contacts)
       THEN /\ contactResult' = [contact |-> contacts[i], results |-> EmptyResults]
            /\ events' = Append(events, Event("contactStart", i, "", 0, FALSE, FALSE))
            /\ pc' = "email"
            /\ UNCHANGED response
       ELSE /\ response' = successResponse(results)
            /\ pc' = "done"
            /\ UNCHANGED <<contactResult, events>>
    /\ UNCHANGED <<serviceVars, rendering, renderPc, req, env, i, results, smtpConfig, isInitialized>>

\* the synchronous part of one channel block: skip the block, fail on a null
\* contact, record a missing destination or sender number, or call the sender
\* and suspend
channelStep(channel) ==
    /\ pc = channel
    /\ IF ~requested(channel)
       THEN /\ pc' = nextStage(channel)
            /\ UNCHANGED <<contactResult, events, response>>
       ELSE IF contactResult.contact.kind = "null"
       THEN /\ Fatal(TypeErrorValue(IF channel = "email" THEN "email" ELSE "phone"))
            /\ UNCHANGED <<contactResult, events>>
       ELSE IF ~hasDestination(contactResult.contact, channel)
       THEN /\ contactResult' = withOutcome(contactResult, channel,
                   [success |-> FALSE, error |-> missingDestinationError(channel)])
            /\ pc' = nextStage(channel)
            /\ UNCHANGED <<events, response>>
       ELSE IF channel # "email" /\ ~env.VONAGE_VIRTUAL_NUMBER
       THEN /\ contactResult' = withOutcome(contactResult, channel,
                   [success |-> FALSE, error |-> NoVonageError])
            /\ pc' = nextStage(channel)
            /\ UNCHANGED <<events, response>>
       ELSE /\ events' = Append(events, Event("invoke", i, channel, 0, FALSE, FALSE))
            /\ pc' = channel \o "Wait"
            /\ UNCHANGED <<contactResult, response>>
    /\ UNCHANGED <<serviceVars, rendering, renderPc, req, env, i, results, smtpConfig, isInitialized>>

\* the awaited sender settled with `settled`: the try records the success, the
\* catch records the failure, and what the catch itself throws is fatal
channelSettle(channel, settled, delivered) ==
    /\ events' = Append(events, Event("settle", i, channel, 0, ~settled.threw, delivered))
    /\ IF ~settled.threw
       THEN /\ contactResult' = withOutcome(contactResult, channel,
                   [success |-> TRUE, result |-> settled.value])
            /\ pc' = nextStage(channel)
            /\ UNCHANGED response
       ELSE IF channelCatch(settled.error).threw
       THEN /\ Fatal(channelCatch(settled.error).error)
            /\ UNCHANGED contactResult
       ELSE /\ contactResult' = withOutcome(contactResult, channel,
                   channelCatch(settled.error).outcome)
            /\ pc' = nextStage(channel)
            /\ UNCHANGED response

EmailStep == channelStep("email")

\* await emailService.sendEmail({ to: [contact], ..., smtpConfig }) settles
EmailSettle ==
    /\ pc = "emailWait"
    /\ \E v \in VerifyBehaviours, m \in SendMailBehaviours :
        LET settled == sendEmail(<<contactResult.contact.email>>, smtpConfig, env,
                                 isInitialized, v, <<m>>)
        IN  /\ isInitialized' = settled.isInitialized
            /\ channelSettle("email", settled,
                             ~settled.threw /\ settled.value.total_rejected_recipients = 0)
    /\ UNCHANGED <<serviceVars, rendering, renderPc, req, env, i, results, smtpConfig>>

CallStep == channelStep("call")

\* await vonageService.createOutboundCall(...) settles
CallSettle ==
    /\ pc = "callWait"
    /\ \E b \in CallBehaviours : channelSettle("call", createOutboundCall(b), b = OkValue)
    /\ UNCHANGED <<serviceVars, rendering, renderPc, req, env, i, results, smtpConfig, isInitialized>>

SmsStep == channelStep("sms")

\* await messagesService.sendSms(...) settles
SmsSettle ==
    /\ pc = "smsWait"
    /\ \E b \in SmsBehaviours : channelSettle("sms", sendSms(b), b = OkValue)
    /\ UNCHANGED <<serviceVars, rendering, renderPc, req, env, i, results, smtpConfig, isInitialized>>

\* Push that goes through the channel blocks once per entry of channels
Push_perEntry ==
    /\ pc = "push"
    /\ IF Cardinality({k \in DOMAIN events :
                          events[k].type = "invoke" /\ events[k].contact = i})
             < Len(channels)
       THEN /\ pc' = "email"
            /\ UNCHANGED <<results, events, i>>
       ELSE /\ results' = push(results, contactResult)
            /\ IF needsDelay(i, Len(contacts))
               THEN /\ events' = Append(Append(events, Event("contactDone", i, "", 0, FALSE, FALSE)),
                                        Event("delayStart", i, "", delayBetweenContacts, FALSE, FALSE))
                    /\ pc' = "delayWait"
                    /\ i' = i
               ELSE /\ events' = Append(events, Event("contactDone", i, "", 0, FALSE, FALSE))
                    /\ pc' = "loop"
                    /\ i' = i + 1
    /\ UNCHANGED <<serviceVars, rendering, renderPc, req, env, contactResult, smtpConfig, isInitialized, response>>

\* results.push(contactResult), then the pacing delay unless this was the
\* last contact
Push ==
    /\ pc = "push"
    /\ results' = push(results, contactResult)
    /\ IF needsDelay(i, Len(contacts))
       THEN /\ events' = Append(Append(events, Event("contactDone", i, "", 0, FALSE, FALSE)),
                                Event("delayStart", i, "", delayBetweenContacts, FALSE, FALSE))
            /\ pc' = "delayWait"
            /\ i' = i
       ELSE /\ events' = Append(events, Event("contactDone", i, "", 0, FALSE, FALSE))
            /\ pc' = "loop"
            /\ i' = i + 1
    /\ UNCHANGED <<serviceVars, rendering, renderPc, req, env, contactResult, smtpConfig, isInitialized, response>>

\* DelaySettle that fetches the SMTP configuration again before the next contact
DelaySettle_refetch ==
    /\ pc = "delayWait"
    /\ events' = Append(Append(events, Event("delayEnd", i, "", delayBetweenContacts, TRUE, FALSE)),
                        Event("lookupStart", 0, "", 0, FALSE, FALSE))
    /\ pc' = "smtpWait"
    /\ i' = i + 1
    /\ UNCHANGED <<serviceVars, rendering, renderPc, req, env, contactResult, results, smtpConfig, isInitialized, response>>

\* the timer of await delay(delayBetweenContacts) fires
DelaySettle ==
    /\ pc = "delayWait"
    /\ events' = Append(events, Event("delayEnd", i, "", delayBetweenContacts, TRUE, FALSE))
    /\ pc' = "loop"
    /\ i' = i + 1
    /\ UNCHANGED <<serviceVars, rendering, renderPc, req, env, contactResult, results, smtpConfig, isInitialized, response>>

Next ==
    \/ RejectContacts
    \/ RejectChannels
    \/ RejectInvalidChannel
    \/ Begin
    \/ SmtpLookupSettle
    \/ LoopTop
    \/ EmailStep
    \/ EmailSettle
    \/ CallStep
    \/ CallSettle
    \/ SmsStep
    \/ SmsSettle
    \/ Push
    \/ DelaySettle

Spec == Init /\ [][Next]_vars

\* every await of the handler settles and every timer fires, and the
\* synchronous code between two awaits runs to the next await
Fairness == WF_vars(Next)

\* the requests that leave delayBetweenContacts to its default: how long a
\* timer runs plays no part in whether it fires
LiveInit == Init /\ req.delayBetweenContacts = <<>>

SpecLive == LiveInit /\ [][Next]_vars /\ Fairness

TypeOK ==
    /\ pc \in {"entry", "smtpWait", "loop", "email", "emailWait", "call", "callWait",
               "sms", "smsWait", "push", "delayWait", "done"}
    /\ i \in 1..(MaxContacts + 1)
    /\ smtpConfig \in {"null", "config"}
    /\ isInitialized \in BOOLEAN
    /\ response.status \in {0, 200, 400, 500}

(* ------------------- rendering of the messages ------------------------- *)
(* What executeCampaign and EmailService.sendEmail make of the message     *)
(* templates of a request for one contact that has an email and a phone.   *)
(* A text is a sequence of tokens: literal text, or a placeholder {{key}}. *)

Lit(text) == [ph |-> FALSE, s |-> text]
Ph(key) == [ph |-> TRUE, s |-> key]

\* an optional string field: undefined, or a text
NoText == [defined |-> FALSE, text |-> <<>>]
Given(text) == [defined |-> TRUE, text |-> text]

\* a string is truthy unless it is undefined or empty
TruthyText(o) == o.defined /\ o.text # <<>>

\* field || 'default text'
orDefault(o, default) == IF TruthyText(o) THEN o ELSE Given(default)

DefaultSubject == <<Lit("Message from Colla Campaign")>>
DefaultEmailText == <<Lit("Hello from Colla Campaign")>>
DefaultCallMessage == <<Lit("This is a call from your Colla Campaign")>>
DefaultSmsMessage == <<Lit("Hello from Colla Campaign")>>

\* the values of substitution data, each with String(value) and its truthiness
StringData(text) == [type |-> "string", str |-> text, truthy |-> text # <<>>]
ZeroData == [type |-> "number", str |-> <<Lit("0")>>, truthy |-> FALSE]
FalseData == [type |-> "boolean", str |-> <<Lit("false")>>, truthy |-> FALSE]
NullData == [type |-> "null", str |-> <<Lit("null")>>, truthy |-> FALSE]
UndefinedData == [type |-> "undefined", str |-> <<Lit("undefined")>>, truthy |-> FALSE]

\* Object.prototype.constructor, which every object literal inherits
ObjectConstructor ==
    [type |-> "function", str |-> <<Lit("function Object() { [native code] }")>>,
     truthy |-> TRUE]

\* a substitutionData object: undefined, or its own properties in insertion order
NoData == [defined |-> FALSE, entries |-> <<>>]
Object(entries) == [defined |-> TRUE, entries |-> entries]
Entry(key, value) == [key |-> key, value |-> value]

ownKeys(data) == {data.entries[k].key : k \in DOMAIN data.entries}

ownValue(data, key) ==
    data.entries[CHOOSE k \in DOMAIN data.entries : data.entries[k].key = key].value

\* data[key]: an own property, else what Object.prototype has under that name
get(data, key) ==
    IF key \in ownKeys(data) THEN ownValue(data, key)
    ELSE IF key = "constructor" THEN ObjectConstructor
    ELSE UndefinedData

\* SelectSeq without a higher-order argument: the entries whose key is not in keys
RECURSIVE without(_, _)
without(entries, keys) ==
    IF entries = <<>> THEN <<>>
    ELSE IF Head(entries).key \in keys THEN without(Tail(entries), keys)
         ELSE <<Head(entries)>> \o without(Tail(entries), keys)

\* { ...first, ...second } with the arguments in the order of the spread:
\* the keys of first keep their place and take the value second has for them,
\* the other keys of second follow; spreading undefined adds nothing
spread(first, second) ==
    Object([k \in DOMAIN first.entries |->
               IF first.entries[k].key \in ownKeys(second)
               THEN Entry(first.entries[k].key, ownValue(second, first.entries[k].key))
               ELSE first.entries[k]]
           \o without(second.entries, ownKeys(first)))

mergedData_globalWins(substitutionData, recipientData) ==
    spread(recipientData, substitutionData)

\* mergedData = { ...substitutionData, ...recipient.substitutionData }
mergedData(substitutionData, recipientData) == spread(substitutionData, recipientData)

\* EmailService.applySubstitutions: one pass over the template; a placeholder
\* is replaced when data[key] !== undefined
RECURSIVE emailApplySubstitutions(_, _)
emailApplySubstitutions(template, data) ==
    IF template = <<>> THEN <<>>
    ELSE (IF Head(template).ph /\ get(data, Head(template).s) # UndefinedData
          THEN get(data, Head(template).s).str
          ELSE <<Head(template)>>)
         \o emailApplySubstitutions(Tail(template), data)

personalized_always(field, data) == Given(emailApplySubstitutions(field.text, data))

\* subject ? this.applySubstitutions(subject, mergedData) : subject
personalized(field, data) ==
    IF TruthyText(field) THEN Given(emailApplySubstitutions(field.text, data)) ELSE field

\* result.replace(new RegExp(`{{${key}}}`, 'g'), replacement)
RECURSIVE replaceAll(_, _, _)
replaceAll(text, key, replacement) ==
    IF text = <<>> THEN <<>>
    ELSE (IF Head(text) = Ph(key) THEN replacement ELSE <<Head(text)>>)
         \o replaceAll(Tail(text), key, replacement)

\* String(value || '')
stringOrEmpty(value) == IF value.truthy THEN value.str ELSE <<>>

\* the for loop of the controller's applySubstitutions over Object.entries
RECURSIVE replaceEntries(_, _)
replaceEntries(text, entries) ==
    IF entries = <<>> THEN text
    ELSE replaceEntries(replaceAll(text, Head(entries).key, stringOrEmpty(Head(entries).value)),
                        Tail(entries))

\* the controller's applySubstitutions(text, substitutionData)
applySubstitutions(field, substitutionData) ==
    IF ~substitutionData.defined \/ ~TruthyText(field) THEN field
    ELSE Given(replaceEntries(field.text, substitutionData.entries))

\* the templates the message fields of a request are drawn from
Templates ==
    {<<Lit("Hi "), Ph("name")>>,
     <<Ph("name"), Lit(" / "), Ph("code"), Lit(" / "), Ph("name")>>,
     <<Lit("Hi "), Ph("unknown")>>,
     <<Ph("constructor"), Lit("!")>>,
     <<Lit("plain text")>>}

\* the values of the key "name" in a contact's substitutionData; the last one
\* is the string "{{code}}"
DataValues ==
    {StringData(<<Lit("John")>>), StringData(<<>>), ZeroData, FalseData, NullData,
     StringData(<<Ph("code")>>)}

\* contact.substitutionData
RecipientData ==
    {NoData, Object(<<>>)} \cup
    {Object(<<Entry("name", v)>>) : v \in DataValues} \cup
    {Object(<<Entry("name", v), Entry("code", StringData(<<Lit("X1")>>))>>) : v \in DataValues} \cup
    {Object(<<Entry("code", StringData(<<Lit("X1")>>)), Entry("name", v)>>) : v \in DataValues}

\* req.body.emailSubstitutionData
GlobalData ==
    {NoData,
     Object(<<Entry("name", StringData(<<Lit("Customer")>>))>>),
     Object(<<Entry("code", NullData)>>),
     Object(<<Entry("code", StringData(<<Lit("G7")>>)), Entry("name", StringData(<<Lit("Customer")>>))>>)}

\* the message fields of req.body, each omitted or holding the template t
Bodies(t) ==
    [callMessage : {NoText, Given(t)}, smsMessage : {NoText, Given(t)},
     emailSubject : {NoText, Given(t)}, emailHtml : {NoText, Given(t)},
     emailText : {NoText, Given(t)}, emailSubstitutionData : GlobalData]

RenderContacts ==
    {[email |-> "a@x.com", phone |-> "15550100", name |-> "Ann", substitutionData |-> d] :
        d \in RecipientData}

NotCalled == [called |-> FALSE]

\* one campaign at the contact: its request, the contact object, the
\* contactResult made for it at the top of the loop body, and the arguments
\* each sender and the mail transport were called with
Rendering(body, contact) ==
    [body |-> body, contact |-> contact,
     contactResult |-> [contact |-> contact, results |-> <<>>],
     emailParams |-> NotCalled,
     mailOptions |-> NotCalled, callArgs |-> NotCalled, smsArgs |-> NotCalled]

\* two campaigns that differ in emailSubstitutionData at most
RenderPairs ==
    {<<Rendering(b, c), Rendering([b EXCEPT !.emailSubstitutionData = g], c)>> :
        b \in UNION {Bodies(t) : t \in Templates}, c \in RenderContacts, g \in GlobalData}

\* the argument of emailService.sendEmail in executeCampaign
sendEmailParams(body, contact) ==
    [called |-> TRUE,
     to |-> [email |-> contact.email, name |-> contact.name,
             substitutionData |-> contact.substitutionData],
     subject |-> orDefault(body.emailSubject, DefaultSubject),
     html |-> body.emailHtml,
     text |-> orDefault(body.emailText, DefaultEmailText),
     substitutionData |-> body.emailSubstitutionData]

\* mailOptions of sendEmail for its one recipient
mailOptionsOf(params) ==
    [called |-> TRUE,
     subject |-> personalized(params.subject,
                     mergedData(params.substitutionData, params.to.substitutionData)),
     html |-> personalized(params.html,
                     mergedData(params.substitutionData, params.to.substitutionData)),
     text |-> personalized(params.text,
                     mergedData(params.substitutionData, params.to.substitutionData))]

emailBlock_assign(r) ==
    [r EXCEPT !.emailParams = sendEmailParams(r.body, r.contact),
              !.mailOptions = mailOptionsOf(sendEmailParams(r.body, r.contact)),
              !.contactResult.results = Append(@, "email"),
              !.contact.substitutionData =
                  mergedData(r.body.emailSubstitutionData, r.contact.substitutionData)]

\* the email block of the loop body down to transporter.sendMail
emailBlock(r) ==
    [r EXCEPT !.emailParams = sendEmailParams(r.body, r.contact),
              !.mailOptions = mailOptionsOf(sendEmailParams(r.body, r.contact)),
              !.contactResult.results = Append(@, "email")]

personalizedCallMessage_merged(body, contact) ==
    applySubstitutions(orDefault(body.callMessage, DefaultCallMessage),
                       mergedData(body.emailSubstitutionData, contact.substitutionData))

personalizedCallMessage(body, contact) ==
    applySubstitutions(orDefault(body.callMessage, DefaultCallMessage),
                       contact.substitutionData)

personalizedSmsMessage(body, contact) ==
    applySubstitutions(orDefault(body.smsMessage, DefaultSmsMessage),
                       contact.substitutionData)

\* the call block: the argument of vonageService.createOutboundCall
callBlock(r) ==
    [r EXCEPT !.callArgs = [called |-> TRUE, to |-> r.contact.phone,
                            text |-> personalizedCallMessage(r.body, r.contact)],
              !.contactResult.results = Append(@, "call")]

\* the sms block: the argument of messagesService.sendSms
smsBlock(r) ==
    [r EXCEPT !.smsArgs = [called |-> TRUE, to |-> r.contact.phone,
                           text |-> personalizedSmsMessage(r.body, r.contact)],
              !.contactResult.results = Append(@, "sms")]

RenderInit ==
    /\ rendering \in RenderPairs
    /\ renderPc = "email"
    /\ req = [contacts |-> [kind |-> "undefined", items |-> <<>>],
              channels |-> [kind |-> "undefined", items |-> <<>>],
              delayBetweenContacts |-> <<>>, user |-> FALSE]
    /\ env = [VONAGE_VIRTUAL_NUMBER |-> TRUE, SMTP_CREDENTIALS |-> TRUE]
    /\ pc = "idle"
    /\ i = 1
    /\ contactResult = NoContactResult
    /\ results = <<>>
    /\ smtpConfig = "null"
    /\ isInitialized = FALSE
    /\ response = NoResponse
    /\ events = <<>>
    /\ defaultTransporter = 0
    /\ transporters = <<>>
    /\ calls = <<>>

RenderEmail ==
    /\ renderPc = "email"
    /\ rendering' = [r \in DOMAIN rendering |-> emailBlock(rendering[r])]
    /\ renderPc' = "call"
    /\ UNCHANGED <<campaignVars, serviceVars>>

RenderCall ==
    /\ renderPc = "call"
    /\ rendering' = [r \in DOMAIN rendering |-> callBlock(rendering[r])]
    /\ renderPc' = "sms"
    /\ UNCHANGED <<campaignVars, serviceVars>>

RenderSms ==
    /\ renderPc = "sms"
    /\ rendering' = [r \in DOMAIN rendering |-> smsBlock(rendering[r])]
    /\ renderPc' = "done"
    /\ UNCHANGED <<campaignVars, serviceVars>>

RenderNext ==
    \/ RenderEmail
    \/ RenderCall
    \/ RenderSms

SpecRender == RenderInit /\ [][RenderNext]_vars

(* ------------- concurrent use of EmailService (emailService.ts) --------- *)
(* Two requests are served at the same time; each calls sendEmail or       *)
(* testConnection once.  Every await is a pair of steps, so the calls      *)
(* interleave at their awaits as they do on the event loop.                *)

\* the variables the calls of EmailService leave alone
handlerVars == <<req, pc, i, contactResult, results, smtpConfig, response, events,
                 rendering, renderPc>>

\* the two requests in flight
Callers == {"first", "second"}

\* the `to` of a call, as the recipients' addresses
RecipientLists == {<<>>, <<"a@x.com">>, <<"a@x.com", "b@x.com">>}

\* a call that has not started: op is the method, smtpConfig says whether a
\* custom configuration is passed, own is the transporter the call made,
\* transporter the one createTransporter gave it, settled the sendMail
\* promises that settled so far, in the order they settled
NewCall(op, cfg, to) ==
    [op |-> op, smtpConfig |-> cfg, to |-> to, pc |-> "idle", own |-> 0,
     transporter |-> 0, settled |-> <<>>, value |-> <<>>, error |-> OkValue]

CallInputs ==
    {NewCall("sendEmail", cfg, to) : cfg \in BOOLEAN, to \in RecipientLists} \cup
    {NewCall("testConnection", TRUE, <<>>)}

\* nodemailer.createTransport(...)
Transporter(kind) == [kind |-> kind, verified |-> "pending", closed |-> FALSE]

\* error instanceof Error ? error.message : 'Unknown error'
errorMessage(err) == IF err.type = "Error" THEN err.text ELSE UnknownError

\* sendEmail from the line after createTransporter down to the first await
\* of the map: the test of the environment, then sendMail for every recipient
afterTransporter(call, t, environment) ==
    IF ~call.smtpConfig /\ ~environment.SMTP_CREDENTIALS
    THEN [call EXCEPT !.pc = "threw", !.transporter = t,
                      !.error = ErrorValue(MissingSmtpEnvError)]
    ELSE [call EXCEPT !.pc = "sending", !.transporter = t]

\* the recipients whose sendMail promise is pending
Pending(call) == DOMAIN call.to \ {call.settled[k].index : k \in DOMAIN call.settled}

\* promiseAll handing the results over in the order the promises settled
promiseAll_settleOrder(call) == [k \in DOMAIN call.settled |-> call.settled[k].result]

\* await Promise.all(emailPromises): the results in the order of `to`
promiseAll(call) ==
    [k \in DOMAIN call.to |->
        call.settled[CHOOSE n \in DOMAIN call.settled : call.settled[n].index = k].result]

\* transporter.close()
close(ts, t) == [ts EXCEPT ![t].closed = TRUE]

EmailInit ==
    /\ calls \in [Callers -> CallInputs]
    /\ env \in {e \in Environments : e.VONAGE_VIRTUAL_NUMBER}
    /\ isInitialized = FALSE
    /\ defaultTransporter = 0
    /\ transporters = <<>>
    /\ req = [contacts |-> [kind |-> "undefined", items |-> <<>>],
              channels |-> [kind |-> "undefined", items |-> <<>>],
              delayBetweenContacts |-> <<>>, user |-> FALSE]
    /\ pc = "idle"
    /\ i = 1
    /\ contactResult = NoContactResult
    /\ results = <<>>
    /\ smtpConfig = "null"
    /\ response = NoResponse
    /\ events = <<>>
    /\ rendering = <<>>
    /\ renderPc = "idle"

\* a call starts and runs createTransporter down to its first await: a custom
\* transporter is made and its verify awaited; or initialize() assigns a new
\* default transporter and awaits its verify; or the default transporter is
\* returned as it is and sendEmail goes on
CreateTransporter(c) ==
    /\ calls[c].pc = "idle"
    /\ IF calls[c].smtpConfig
       THEN /\ transporters' = Append(transporters, Transporter("custom"))
            /\ calls' = [calls EXCEPT ![c].pc = "verify", ![c].own = Len(transporters) + 1]
            /\ UNCHANGED defaultTransporter
       ELSE IF ~isInitialized
       THEN /\ transporters' = Append(transporters, Transporter("default"))
            /\ defaultTransporter' = Len(transporters) + 1
            /\ calls' = [calls EXCEPT ![c].pc = "initialize", ![c].own = Len(transporters) + 1]
       ELSE /\ calls' = [calls EXCEPT ![c] = afterTransporter(calls[c], defaultTransporter, env)]
            /\ UNCHANGED <<defaultTransporter, transporters>>
    /\ UNCHANGED <<handlerVars, env, isInitialized>>

\* await transporter.verify() of a custom transporter settles: sendEmail goes
\* on or throws; testConnection goes on to its own verify or returns the error
CustomVerifySettle(c) ==
    /\ calls[c].pc = "verify"
    /\ \E b \in VerifyBehaviours :
        /\ transporters' = [transporters EXCEPT ![calls[c].own].verified =
                               IF b = OkValue THEN "ok" ELSE "failed"]
        /\ calls' = [calls EXCEPT ![c] =
              IF calls[c].op = "sendEmail"
              THEN IF b = OkValue THEN afterTransporter(calls[c], calls[c].own, env)
                   ELSE [calls[c] EXCEPT !.pc = "threw", !.error = b]
              ELSE IF b = OkValue
                   THEN [calls[c] EXCEPT !.pc = "verify2", !.transporter = calls[c].own]
                   ELSE [calls[c] EXCEPT !.pc = "returned",
                            !.value = <<[success |-> FALSE, error |-> errorMessage(b)]>>]]
    /\ UNCHANGED <<handlerVars, env, isInitialized, defaultTransporter>>

\* await this.defaultTransporter.verify() in initialize() settles: on success
\* isInitialized is set and createTransporter returns this.defaultTransporter
\* as it is by then; on failure the error is thrown on
InitializeSettle(c) ==
    /\ calls[c].pc = "initialize"
    /\ \E b \in VerifyBehaviours :
        /\ transporters' = [transporters EXCEPT ![calls[c].own].verified =
                               IF b = OkValue THEN "ok" ELSE "failed"]
        /\ IF b = OkValue
           THEN /\ isInitialized' = TRUE
                /\ calls' = [calls EXCEPT ![c] =
                                afterTransporter(calls[c], defaultTransporter, env)]
           ELSE /\ calls' = [calls EXCEPT ![c].pc = "threw", ![c].error = b]
                /\ UNCHANGED isInitialized
    /\ UNCHANGED <<handlerVars, env, defaultTransporter>>

\* one await transporter.sendMail(mailOptions) settles
SendMailSettle(c) ==
    /\ calls[c].pc = "sending"
    /\ \E k \in Pending(calls[c]), m \in SendMailBehaviours :
        calls' = [calls EXCEPT ![c].settled =
                     Append(@, [index |-> k, result |-> sendOne(calls[c].to[k], m)])]
    /\ UNCHANGED <<handlerVars, env, isInitialized, defaultTransporter, transporters>>

\* every promise settled: Promise.all resolves, a custom transporter is
\* closed, and sendEmail returns the summary
SendEmailReturn(c) ==
    /\ calls[c].pc = "sending"
    /\ Pending(calls[c]) = {}
    /\ transporters' =
          IF calls[c].smtpConfig /\ calls[c].transporter # defaultTransporter
          THEN close(transporters, calls[c].transporter)
          ELSE transporters
    /\ calls' = [calls EXCEPT ![c].pc = "returned",
                              ![c].value = <<emailSummary(promiseAll(calls[c]))>>]
    /\ UNCHANGED <<handlerVars, env, isInitialized, defaultTransporter>>

\* await transporter.verify() of testConnection settles: the transporter is
\* closed and success returned, or the catch returns the error
TestVerifySettle(c) ==
    /\ calls[c].pc = "verify2"
    /\ \E b \in VerifyBehaviours :
        IF b = OkValue
        THEN /\ transporters' = close(transporters, calls[c].transporter)
             /\ calls' = [calls EXCEPT ![c].pc = "returned",
                                       ![c].value = <<[success |-> TRUE]>>]
        ELSE /\ calls' = [calls EXCEPT ![c].pc = "returned",
                             ![c].value = <<[success |-> FALSE, error |-> errorMessage(b)]>>]
             /\ UNCHANGED transporters
    /\ UNCHANGED <<handlerVars, env, isInitialized, defaultTransporter>>

EmailNext ==
    \E c \in Callers :
        \/ CreateTransporter(c)
        \/ CustomVerifySettle(c)
        \/ InitializeSettle(c)
        \/ SendMailSettle(c)
        \/ SendEmailReturn(c)
        \/ TestVerifySettle(c)

SpecEmail == EmailInit /\ [][EmailNext]_vars

(* ---------------------------- properties ------------------------------- *)

Done == pc = "done"
Succeeded == Done /\ response.status = 200
Failed == Done /\ response.status = 500

\* the loop body is at work on contact i
InLoopBody == pc \in {"email", "emailWait", "call", "callWait", "sms", "smsWait", "push"}

\* the contacts a ContactResult exists for, complete or under construction
Recorded == (1..Len(results)) \cup (IF InLoopBody THEN {i} ELSE {})

ResultOf(c) == IF c <= Len(results) THEN results[c] ELSE contactResult

\* the ContactResults the response carries
Reported ==
    IF response.status = 200 THEN response.results
    ELSE IF response.status = 500 THEN response.partialResults
    ELSE <<>>

EventsOf(type) == {k \in DOMAIN events : events[k].type = type}

Invoked(c, channel) ==
    \E k \in EventsOf("invoke") : events[k].contact = c /\ events[k].channel = channel

Settled(c, channel, resolved) ==
    \E k \in EventsOf("settle") :
        /\ events[k].contact = c
        /\ events[k].channel = channel
        /\ events[k].resolved = resolved

HasOutcome(cr, channel) == channel \in DOMAIN cr.results

\* the contact has no value in the field the channel sends to
Lacks(contact, channel) ==
    IF channel = "email" THEN contact.email = Absent ELSE contact.phone = Absent

ChannelRank(channel) ==
    CASE channel = "email" -> 1
      [] channel = "call" -> 2
      [] channel = "sms" -> 3
      [] OTHER -> 0

\* C1: every rejection of a channel's sender, whatever the value it rejects
\* with, is recorded as a success:false outcome of that channel for that
\* contact, and it never turns the campaign into the fatal response: a fatal
\* response is only ever due to a contact that is not an object.
C1_SenderFailureIsolated ==
    /\ \A k \in EventsOf("settle") :
          ~events[k].resolved =>
              /\ events[k].contact \in Recorded
              /\ HasOutcome(ResultOf(events[k].contact), events[k].channel)
              /\ ~ResultOf(events[k].contact).results[events[k].channel].success
    /\ Failed => \E c \in DOMAIN contacts : contacts[c] = NullContact

\* C2: a recorded email outcome with success:true means the message of that
\* contact was accepted by the transport; a message the transport did not
\* send is recorded as success:false.
C2_EmailOutcomeReflectsTransport ==
    \A c \in Recorded :
        (HasOutcome(ResultOf(c), "email") /\ ResultOf(c).results["email"].success) =>
            /\ ResultOf(c).results["email"].result.total_rejected_recipients = 0
            /\ ResultOf(c).results["email"].result.total_accepted_recipients = 1

\* C3: a contact without the destination of a requested channel gets the
\* "No email/phone provided" outcome for that channel and the sender is not
\* invoked for it, while every channel the contact has a destination for is
\* still sent and recorded with what its sender settled with.
C3_MissingDestinationIsolated ==
    \A c \in Recorded : \A channel \in Range(validChannels) :
        LET cr == ResultOf(c)
        IN  HasOutcome(cr, channel) =>
              IF Lacks(contacts[c], channel)
              THEN /\ cr.results[channel] =
                        [success |-> FALSE,
                         error |-> IF channel = "email" THEN NoEmailError ELSE NoPhoneError]
                   /\ ~Invoked(c, channel)
              ELSE IF channel # "email" /\ ~env.VONAGE_VIRTUAL_NUMBER
              THEN ~Invoked(c, channel)
              ELSE /\ Invoked(c, channel)
                   /\ Settled(c, channel, cr.results[channel].success)

\* C3 witness: a finished campaign in which contact 1 has no email and got the
\* error without the email sender being invoked, its sms was sent, and the
\* email of contact 2 was sent.
C3_Witness ==
    /\ Succeeded
    /\ Len(contacts) = 2
    /\ channels = <<"sms", "email">>
    /\ contacts[1].email = Absent
    /\ results[1].results["email"] = [success |-> FALSE, error |-> NoEmailError]
    /\ ~Invoked(1, "email")
    /\ Settled(1, "sms", TRUE)
    /\ results[1].results["sms"].success
    /\ Settled(2, "email", TRUE)
    /\ results[2].results["email"].success

\* C4: the success response holds one ContactResult per contact, in the order
\* of the request's contacts.
C4_OrderPreserved ==
    Succeeded =>
        /\ Len(response.results) = Len(contacts)
        /\ \A k \in DOMAIN contacts : response.results[k].contact = contacts[k]

\* C4 witness: a finished campaign of two contacts whose sends settled
\* differently.
C4_Witness ==
    /\ Succeeded
    /\ Len(contacts) = 2
    /\ Settled(1, "call", FALSE)
    /\ Settled(2, "call", TRUE)

\* C5: the keys of the results map of every appended ContactResult are
\* exactly the channels of the request.
C5_KeysAreRequestedChannels ==
    /\ \A k \in DOMAIN results : DOMAIN results[k].results = Range(channels)
    /\ \A k \in DOMAIN Reported : DOMAIN Reported[k].results = Range(channels)

\* C5 witness: an appended ContactResult with one channel skipped for a missing
\* destination, one sent successfully and one failed.
C5_Witness ==
    /\ Len(results) >= 1
    /\ Range(channels) = {"email", "call", "sms"}
    /\ ~Invoked(1, "email")
    /\ Settled(1, "call", TRUE)
    /\ Settled(1, "sms", FALSE)

\* the number of contacts whose ContactResult was appended
Completed == Cardinality(EventsOf("contactDone"))

\* C6: a fatal error after K of the N contacts completed (K < N) yields the
\* response success:false with an error message and with partialResults
\* holding exactly the K completed ContactResults in contact order.
C6_FatalKeepsPartialResults ==
    Failed =>
        /\ response.success = FALSE
        /\ response.error # ""
        /\ Completed < Len(contacts)
        /\ Len(response.partialResults) = Completed
        /\ \A k \in 1..Completed :
              /\ response.partialResults[k].contact = contacts[k]
              /\ \A channel \in Range(channels) :
                    /\ HasOutcome(response.partialResults[k], channel)
                    /\ Invoked(k, channel) =>
                          Settled(k, channel, response.partialResults[k].results[channel].success)

\* C6 witness: a fatal response after one of two contacts completed.
C6_Witness ==
    /\ Failed
    /\ Len(contacts) = 2
    /\ Completed = 1
    /\ Len(response.partialResults) = 1

\* C7: when executeCampaign responds, every send that succeeded before is
\* reported as a success:true outcome in results or partialResults, the sends
\* of the contact at work when a fatal error occurred included.
C7_NoProgressDiscarded ==
    (Succeeded \/ Failed) =>
        \A k \in EventsOf("settle") :
            events[k].delivered =>
                /\ events[k].contact \in DOMAIN Reported
                /\ HasOutcome(Reported[events[k].contact], events[k].channel)
                /\ Reported[events[k].contact].results[events[k].channel].success

\* C8: the sends of one campaign never overlap and are made in a fixed order:
\* a send is followed by its own settlement before anything else happens, and
\* later sends are for a later contact or for a later channel (email, call,
\* sms) of the same contact.
C8_SendsSequential ==
    /\ \A k \in EventsOf("invoke") :
          IF k = Len(events)
          THEN pc = events[k].channel \o "Wait" /\ i = events[k].contact
          ELSE /\ events[k + 1].type = "settle"
               /\ events[k + 1].contact = events[k].contact
               /\ events[k + 1].channel = events[k].channel
    /\ \A k, l \in EventsOf("invoke") :
          k < l =>
              \/ events[k].contact < events[l].contact
              \/ /\ events[k].contact = events[l].contact
                 /\ ChannelRank(events[k].channel) < ChannelRank(events[l].channel)

\* C8 witness: a finished campaign in which email, call and sms were sent to
\* contact 1 and to contact 2.
C8_Witness ==
    /\ Succeeded
    /\ \A c \in {1, 2} : \A channel \in {"email", "call", "sms"} : Invoked(c, channel)

\* the position of the one event of the given type and contact
PositionOf(type, c) ==
    CHOOSE k \in DOMAIN events : events[k].type = type /\ events[k].contact = c

\* C9: a campaign of N contacts that completes has exactly N-1 pacing delays,
\* each of the request's delayBetweenContacts milliseconds (3000 when
\* omitted), one after the completion of each contact but the last and before
\* the start of the next contact; at no time is there a delay after the last
\* contact.
C9_PacingDelays ==
    /\ \A k \in EventsOf("delayStart") :
          /\ events[k].contact < Len(contacts)
          /\ events[k].ms = IF req.delayBetweenContacts = <<>> THEN 3000
                            ELSE req.delayBetweenContacts[1]
          /\ events[k - 1].type = "contactDone"
          /\ events[k - 1].contact = events[k].contact
          /\ k < Len(events) =>
                /\ events[k + 1].type = "delayEnd"
                /\ events[k + 1].contact = events[k].contact
          /\ \A l \in EventsOf("delayStart") : events[l].contact = events[k].contact => l = k
    /\ Succeeded =>
          /\ Cardinality(EventsOf("delayStart")) = Len(contacts) - 1
          /\ Cardinality(EventsOf("delayEnd")) = Len(contacts) - 1
          /\ \A c \in 1..(Len(contacts) - 1) :
                /\ \E k \in EventsOf("delayStart") : events[k].contact = c
                /\ PositionOf("contactDone", c) < PositionOf("delayStart", c)
                /\ PositionOf("delayEnd", c) < PositionOf("contactStart", c + 1)

\* C9 witness: a finished campaign of two contacts without delayBetweenContacts
\* in the request and with its one delay of 3000 ms.
C9_Witness ==
    /\ Succeeded
    /\ Len(contacts) = 2
    /\ req.delayBetweenContacts = <<>>
    /\ \E k \in EventsOf("delayStart") : events[k].contact = 1 /\ events[k].ms = 3000

\* C10: a request whose contacts are missing, not an array or empty is
\* answered with the 400 error and nothing else: no sender and no SMTP lookup
\* is invoked and no result is produced.
C10_InvalidContactsRejected ==
    (req.contacts.kind # "array" \/ Len(req.contacts.items) = 0) =>
        /\ events = <<>>
        /\ results = <<>>
        /\ pc \in {"entry", "done"}
        /\ Done => response = [status |-> 400, error |-> MissingContactsError]

\* C10 witness: the rejection of a request of an authenticated user with an
\* empty contacts array and valid channels.
C10_Witness ==
    /\ Done
    /\ req.contacts.kind = "array"
    /\ Len(req.contacts.items) = 0
    /\ req.user
    /\ req.channels.items = <<"email">>
    /\ response.status = 400

KnownChannels == {"call", "sms", "email"}

\* the positions of channels that hold something else than call, sms, email
UnknownPositions == {k \in DOMAIN req.channels.items : req.channels.items[k] \notin KnownChannels}

Least(S) == CHOOSE k \in S : \A j \in S : k <= j

\* C11: a request whose channels are missing, empty or hold an unknown
\* channel is answered 400 with no lookup, no send and no result, also when
\* other channels of the array are known; for an unknown channel the error
\* names the first unknown value of the array.
C11_InvalidChannelsRejected ==
    (req.channels.kind # "array" \/ Len(req.channels.items) = 0 \/ UnknownPositions # {}) =>
        /\ events = <<>>
        /\ results = <<>>
        /\ pc \in {"entry", "done"}
        /\ Done => response.status = 400
        /\ (Done /\ req.contacts.kind = "array" /\ Len(req.contacts.items) > 0) =>
              response.error =
                 IF req.channels.kind # "array" \/ Len(req.channels.items) = 0
                 THEN MissingChannelsError
                 ELSE "Invalid channel: " \o req.channels.items[Least(UnknownPositions)] \o
                      ". Valid: call, sms, email"

\* C11 witness: the rejection of a request whose channels hold a known channel
\* followed by two unknown ones.
C11_Witness ==
    /\ Done
    /\ Len(req.contacts.items) > 0
    /\ req.channels.items = <<"sms", "pager", "fax">>
    /\ response = [status |-> 400, error |-> "Invalid channel: pager. Valid: call, sms, email"]

\* C12: a request that passed validation gets exactly one response: the
\* handler is finished exactly when a response was sent, a response once sent
\* is never replaced, it is the success response with one ContactResult per
\* contact or the fatal response with partialResults, and an unfinished
\* handler always has a next step.
C12_Responded ==
    /\ Done <=> response.status # 0
    /\ response.status \in {0, 200, 400, 500}
    /\ response.status = 400 <=>
          (Done /\ (\/ req.contacts.kind # "array" \/ Len(req.contacts.items) = 0
                    \/ req.channels.kind # "array" \/ Len(req.channels.items) = 0
                    \/ UnknownPositions # {}))
    /\ response.status = 200 =>
          /\ DOMAIN response = {"status", "success", "message", "results"}
          /\ response.success
          /\ Len(response.results) = Len(req.contacts.items)
    /\ response.status = 500 =>
          /\ DOMAIN response = {"status", "success", "error", "partialResults"}
          /\ ~response.success

C12_ExactlyOneResponse ==
    /\ []C12_Responded
    /\ [][response.status # 0 => response' = response]_vars
    /\ [](~Done => ENABLED Next)

\* C12 witness: both kinds of response to a valid request occur; this one is
\* the fatal response sent after one contact completed.
C12_Witness ==
    /\ Done
    /\ response.status = 500
    /\ Len(response.partialResults) = 1
    /\ Len(req.contacts.items) = 2

\* C18: the message of the success response is "Campaign executed for N
\* contact(s) across M channel(s)" with N the number of contacts and M the
\* number of distinct channels of the request.
C18_SuccessMessage ==
    Succeeded =>
        response.message =
            "Campaign executed for " \o ToString(Len(req.contacts.items)) \o
            " contact(s) across " \o ToString(Cardinality(Range(req.channels.items))) \o
            " channel(s)"

\* C19: the SMTP configuration of the user is looked up at most once per
\* campaign, before the first contact is started and only for a request with
\* a user, and smtpConfig changes at no other moment than when that lookup
\* settles, so every contact's email is sent with the same configuration.
C19_LookupOnce ==
    /\ Cardinality(EventsOf("lookupStart")) <= 1
    /\ Cardinality(EventsOf("lookupEnd")) <= 1
    /\ \A k \in EventsOf("lookupStart") : k = 1 /\ req.user
    /\ \A k \in EventsOf("lookupEnd") : k = 2
    /\ (EventsOf("lookupEnd") = {} \/ ~events[2].resolved) => smtpConfig = "null"

C19_SmtpConfigResolvedOnce ==
    /\ []C19_LookupOnce
    /\ [][smtpConfig' # smtpConfig => (pc = "smtpWait" /\ events = <<events'[1]>>)]_vars

\* C19 witness: a finished campaign of a user with a custom configuration in
\* which the email of two contacts was sent.
C19_Witness ==
    /\ Succeeded
    /\ req.user
    /\ smtpConfig = "config"
    /\ Invoked(1, "email")
    /\ Invoked(2, "email")
    /\ Cardinality(EventsOf("lookupStart")) = 1

(* ---------------------- properties of the rendering -------------------- *)

Runs == DOMAIN rendering

Mailed(r) == rendering[r].mailOptions.called

\* the keys of a template's placeholders
PlaceholderKeys(text) == {text[k].s : k \in {n \in DOMAIN text : text[n].ph}}

RECURSIVE Concat(_)
Concat(texts) == IF texts = <<>> THEN <<>> ELSE Head(texts) \o Concat(Tail(texts))

\* the template with each placeholder replaced by String of the recipient's
\* value for its key when the recipient has the key, else of the global value
C13_Expected(template, global, recipient) ==
    Concat([k \in DOMAIN template |->
               IF ~template[k].ph THEN <<template[k]>>
               ELSE IF template[k].s \in ownKeys(recipient)
                    THEN ownValue(recipient, template[k].s).str
                    ELSE ownValue(global, template[k].s).str])

C13_FieldOk(field, rendered, global, recipient) ==
    (/\ TruthyText(field)
     /\ PlaceholderKeys(field.text) \subseteq (ownKeys(global) \cup ownKeys(recipient)))
        => rendered = Given(C13_Expected(field.text, global, recipient))

\* C13: in every email handed to the transport, each placeholder whose key
\* is in the recipient's substitutionData shows the recipient's value, also
\* when the global data has the key too, and each placeholder whose key is
\* in the global data only shows the global value.
C13_RecipientOverridesGlobal ==
    \A r \in Runs :
        Mailed(r) =>
            /\ C13_FieldOk(rendering[r].body.emailSubject, rendering[r].mailOptions.subject,
                           rendering[r].body.emailSubstitutionData,
                           rendering[r].contact.substitutionData)
            /\ C13_FieldOk(rendering[r].body.emailHtml, rendering[r].mailOptions.html,
                           rendering[r].body.emailSubstitutionData,
                           rendering[r].contact.substitutionData)
            /\ C13_FieldOk(rendering[r].body.emailText, rendering[r].mailOptions.text,
                           rendering[r].body.emailSubstitutionData,
                           rendering[r].contact.substitutionData)

\* an email whose subject has a key of both mappings and a key of the global
\* data only, rendered with the recipient's "John" and the global "G7"
C13_Witness ==
    /\ Mailed(1)
    /\ rendering[1].body.emailSubject =
           Given(<<Ph("name"), Lit(" / "), Ph("code"), Lit(" / "), Ph("name")>>)
    /\ rendering[1].body.emailSubstitutionData =
           Object(<<Entry("code", StringData(<<Lit("G7")>>)),
                    Entry("name", StringData(<<Lit("Customer")>>))>>)
    /\ rendering[1].contact.substitutionData =
           Object(<<Entry("name", StringData(<<Lit("John")>>))>>)
    /\ rendering[1].mailOptions.subject =
           Given(<<Lit("John"), Lit(" / "), Lit("G7"), Lit(" / "), Lit("John")>>)

Called(r) == rendering[r].callArgs.called

Texted(r) == rendering[r].smsArgs.called

\* the template with each placeholder whose key is an own key of data
\* replaced by String(data[key]), and every other token as it is
StringOfData(template, data) ==
    Concat([k \in DOMAIN template |->
               IF template[k].ph /\ template[k].s \in ownKeys(data)
               THEN ownValue(data, template[k].s).str
               ELSE <<template[k]>>])

\* what the claim expects of a field the request gives whose placeholders are
\* all keys of the data
C14_FieldOk(field, rendered, data) ==
    (TruthyText(field) /\ PlaceholderKeys(field.text) \subseteq ownKeys(data))
        => rendered = Given(StringOfData(field.text, data))

\* C14: in every message the campaign renders (email subject, html and text;
\* call text; SMS text) each placeholder whose key is in the substitution
\* data is replaced by String(data[key]), also when the value is 0, false,
\* the empty string or null.  The email is rendered with the recipient's
\* data where no global data is given, the call and the SMS with the
\* contact's data.
C14_ReplacedByStringOfValue ==
    \A r \in Runs :
        /\ (Mailed(r) /\ ~rendering[r].body.emailSubstitutionData.defined) =>
              /\ C14_FieldOk(rendering[r].body.emailSubject, rendering[r].mailOptions.subject,
                             rendering[r].contact.substitutionData)
              /\ C14_FieldOk(rendering[r].body.emailHtml, rendering[r].mailOptions.html,
                             rendering[r].contact.substitutionData)
              /\ C14_FieldOk(rendering[r].body.emailText, rendering[r].mailOptions.text,
                             rendering[r].contact.substitutionData)
        /\ Called(r) =>
              C14_FieldOk(rendering[r].body.callMessage, rendering[r].callArgs.text,
                          rendering[r].contact.substitutionData)
        /\ Texted(r) =>
              C14_FieldOk(rendering[r].body.smsMessage, rendering[r].smsArgs.text,
                          rendering[r].contact.substitutionData)

\* a field of the request none of whose placeholders is among the keys comes
\* out as it went in, and rendering the output again leaves it as it is
C15_EmailFieldOk(field, rendered, global, recipient) ==
    (/\ TruthyText(field)
     /\ PlaceholderKeys(field.text) \cap (ownKeys(global) \cup ownKeys(recipient)) = {})
        => /\ rendered = field
           /\ personalized(rendered, mergedData(global, recipient)) = rendered

C15_TextFieldOk(field, rendered, data) ==
    (TruthyText(field) /\ PlaceholderKeys(field.text) \cap ownKeys(data) = {})
        => /\ rendered = field
           /\ applySubstitutions(rendered, data) = rendered

\* C15: a placeholder whose key is not in the substitution data stays in the
\* output as it is: a template none of whose placeholders is a key of the
\* data is rendered unchanged, and rendering it again changes nothing, in
\* the email and in the call and SMS texts, also when no data is given.
C15_UnmatchedLeftVerbatim ==
    \A r \in Runs :
        /\ Mailed(r) =>
              /\ C15_EmailFieldOk(rendering[r].body.emailSubject,
                                  rendering[r].mailOptions.subject,
                                  rendering[r].body.emailSubstitutionData,
                                  rendering[r].contact.substitutionData)
              /\ C15_EmailFieldOk(rendering[r].body.emailHtml,
                                  rendering[r].mailOptions.html,
                                  rendering[r].body.emailSubstitutionData,
                                  rendering[r].contact.substitutionData)
              /\ C15_EmailFieldOk(rendering[r].body.emailText,
                                  rendering[r].mailOptions.text,
                                  rendering[r].body.emailSubstitutionData,
                                  rendering[r].contact.substitutionData)
        /\ Called(r) =>
              C15_TextFieldOk(rendering[r].body.callMessage, rendering[r].callArgs.text,
                              rendering[r].contact.substitutionData)
        /\ Texted(r) =>
              C15_TextFieldOk(rendering[r].body.smsMessage, rendering[r].smsArgs.text,
                              rendering[r].contact.substitutionData)

\* the two requests are the same but for emailSubstitutionData
C16_SameButEmailData ==
    /\ rendering[1].contact = rendering[2].contact
    /\ [rendering[1].body EXCEPT !.emailSubstitutionData = NoData]
           = [rendering[2].body EXCEPT !.emailSubstitutionData = NoData]

\* C16: two campaigns that differ in emailSubstitutionData only call the
\* call sender and the SMS sender with the same arguments: the global email
\* data never reaches the call text or the SMS text.
C16_CallAndSmsIgnoreEmailData ==
    C16_SameButEmailData =>
        /\ rendering[1].callArgs = rendering[2].callArgs
        /\ rendering[1].smsArgs = rendering[2].smsArgs

\* both senders were called with a text rendered from the contact's data,
\* for two requests whose global data differ and whose emails differ
C16_Witness ==
    /\ renderPc = "done"
    /\ C16_SameButEmailData
    /\ rendering[1].body.emailSubstitutionData # rendering[2].body.emailSubstitutionData
    /\ rendering[1].mailOptions # rendering[2].mailOptions
    /\ rendering[1].contact.substitutionData =
           Object(<<Entry("name", StringData(<<Lit("John")>>))>>)
    /\ rendering[1].callArgs.called /\ rendering[2].callArgs.called
    /\ rendering[1].callArgs.text =
           Given(<<Lit("John"), Lit(" / "), Ph("code"), Lit(" / "), Lit("John")>>)
    /\ rendering[1].smsArgs.called /\ rendering[2].smsArgs.called
    /\ rendering[2].smsArgs.text =
           Given(<<Lit("John"), Lit(" / "), Ph("code"), Lit(" / "), Lit("John")>>)

Sent(r) == rendering[r].emailParams.called

\* C17 as stated: an optional field the request omits, emailText or
\* emailHtml, is absent in the argument of the email sender and in the mail
\* handed to the transport.
C17_OmittedFieldsReachSenderAbsent ==
    \A r \in Runs :
        (Sent(r) /\ Mailed(r)) =>
            /\ ~rendering[r].body.emailHtml.defined =>
                   /\ rendering[r].emailParams.html = NoText
                   /\ rendering[r].mailOptions.html = NoText
            /\ ~rendering[r].body.emailText.defined =>
                   /\ rendering[r].emailParams.text = NoText
                   /\ rendering[r].mailOptions.text = NoText

\* C17 as the code has it: an omitted emailHtml is absent in the argument of
\* the email sender and in the mail handed to the transport; an omitted
\* emailText reaches both as the default text "Hello from Colla Campaign",
\* whatever the substitution data.
C17_OmittedHtmlAbsentTextDefaulted ==
    \A r \in Runs :
        (Sent(r) /\ Mailed(r)) =>
            /\ ~rendering[r].body.emailHtml.defined =>
                   /\ rendering[r].emailParams.html = NoText
                   /\ rendering[r].mailOptions.html = NoText
            /\ ~rendering[r].body.emailText.defined =>
                   /\ rendering[r].emailParams.text =
                          Given(<<Lit("Hello from Colla Campaign")>>)
                   /\ rendering[r].mailOptions.text =
                          Given(<<Lit("Hello from Colla Campaign")>>)

\* a mail for a request with a subject and substitution data but neither
\* emailHtml nor emailText
C17_Witness ==
    /\ Sent(1) /\ Mailed(1)
    /\ rendering[1].body.emailSubject.defined
    /\ rendering[1].contact.substitutionData.defined
    /\ ~rendering[1].body.emailHtml.defined
    /\ ~rendering[1].body.emailText.defined
    /\ rendering[1].mailOptions.html = NoText
    /\ rendering[1].mailOptions.text = Given(<<Lit("Hello from Colla Campaign")>>)

\* the contact of the request, as the handler read it before the first send
C20_Untouched(r) ==
    /\ rendering'[r].contact = rendering[r].contact
    /\ rendering'[r].body = rendering[r].body

C20_StoredIsRequested ==
    \A r \in Runs : rendering[r].contactResult.contact = rendering[r].contact

\* C20: no step of the loop body changes the contact of the request, its
\* substitutionData included, and the contact kept in the ContactResult is
\* the contact of the request.
C20_ContactsNotModified ==
    /\ [][\A r \in Runs : C20_Untouched(r)]_vars
    /\ []C20_StoredIsRequested

\* all three sends are done for a contact whose data the email merged with
\* global data of other values, and the contact still has its own data
C20_Witness ==
    /\ renderPc = "done"
    /\ rendering[1].contactResult.results = <<"email", "call", "sms">>
    /\ rendering[1].body.emailSubstitutionData =
           Object(<<Entry("code", StringData(<<Lit("G7")>>)),
                    Entry("name", StringData(<<Lit("Customer")>>))>>)
    /\ rendering[1].mailOptions.subject =
           Given(<<Lit("John"), Lit(" / "), Lit("G7"), Lit(" / "), Lit("John")>>)
    /\ rendering[1].contact.substitutionData =
           Object(<<Entry("name", StringData(<<Lit("John")>>))>>)
    /\ rendering[1].contactResult.contact.substitutionData =
           Object(<<Entry("name", StringData(<<Lit("John")>>))>>)

(* --------------------- properties of the control flow ------------------ *)

\* the fatal response is out and contact i was the one at work
C21_AbortedAt ==
    Failed =>
        /\ \A k \in DOMAIN events : events[k].contact <= i
        /\ \A k \in EventsOf("delayStart") : events[k].contact < i
        /\ Len(results) = i - 1
        /\ response.partialResults = results

\* C21: once a fatal error occurs at contact k the loop is over: no sender is
\* invoked and no pacing delay is started for a contact after k, no
\* ContactResult is appended any more, and nothing happens after the fatal
\* response.
C21_FatalAbortsLoop ==
    /\ []C21_AbortedAt
    /\ [][response.status = 500 => (events' = events /\ results' = results /\ i' = i)]_vars

\* a fatal response at contact 1, whose sender was invoked and rejected, with
\* a second contact that has an email and was never started
C21_Witness ==
    /\ Failed
    /\ i = 1
    /\ Len(contacts) = 2
    /\ contacts[2] # NullContact
    /\ contacts[2].email # Absent
    /\ requested("email")
    /\ Invoked(1, "email")
    /\ ~Invoked(2, "email")
    /\ results = <<>>

(* ------------------- properties of the email service ------------------- *)

\* the default transporters made so far whose verification did not fail
LiveDefaultTransporters ==
    {t \in DOMAIN transporters :
        transporters[t].kind = "default" /\ transporters[t].verified # "failed"}

\* the calls of sendEmail without a custom configuration that handed their
\* messages to a transporter
DefaultSenders ==
    {c \in DOMAIN calls :
        /\ calls[c].op = "sendEmail"
        /\ ~calls[c].smtpConfig
        /\ calls[c].pc \in {"sending", "returned"}}

\* C22: under every interleaving of sendEmail calls without a custom
\* configuration the default transporter is made and verified once (again
\* only after a verification failed), and all these calls send through the
\* same instance.
C22_DefaultTransporterSingleton ==
    /\ Cardinality(LiveDefaultTransporters) <= 1
    /\ \A c, d \in DefaultSenders : calls[c].transporter = calls[d].transporter

\* C23: under every interleaving of sendEmail calls without a custom
\* configuration, a message is only handed to a default transporter whose own
\* verify() succeeded, and the service only counts as initialised while the
\* default transporter it holds is a verified one; a call whose verification
\* failed has thrown.
C23_SendsOnlyThroughVerified ==
    /\ \A c \in DefaultSenders :
          calls[c].to # <<>> => transporters[calls[c].transporter].verified = "ok"
    /\ isInitialized => transporters[defaultTransporter].verified = "ok"
    /\ \A c \in DOMAIN calls :
          (calls[c].own # 0 /\ transporters[calls[c].own].kind = "default"
              /\ transporters[calls[c].own].verified = "failed") => calls[c].pc = "threw"

\* C24: a custom transporter made for a call of sendEmail or testConnection
\* is closed once that call has returned or thrown, whatever its path, and
\* no default transporter is ever closed.
C24_CustomTransportersClosed ==
    /\ \A c \in DOMAIN calls :
          (/\ calls[c].pc \in {"returned", "threw"}
           /\ calls[c].own # 0
           /\ transporters[calls[c].own].kind = "custom")
              => transporters[calls[c].own].closed
    /\ \A t \in DOMAIN transporters :
          transporters[t].kind = "default" => ~transporters[t].closed

\* what a returned sendEmail call reports for its recipients
C25_Summary(c) ==
    LET v == calls[c].value[1]
    IN  /\ Len(v.results) = Len(calls[c].to)
        /\ \A k \in DOMAIN calls[c].to : v.results[k].recipient = calls[c].to[k]
        /\ v.total_accepted_recipients + v.total_rejected_recipients = Len(calls[c].to)
        /\ Len(calls[c].settled) = Len(calls[c].to)
        /\ \A n \in DOMAIN calls[c].settled :
              v.results[calls[c].settled[n].index] = calls[c].settled[n].result

C25_Returned ==
    \A c \in DOMAIN calls :
        /\ (calls[c].op = "sendEmail" /\ calls[c].pc = "returned") => C25_Summary(c)
        /\ (calls[c].op = "sendEmail" /\ calls[c].pc = "threw") => calls[c].settled = <<>>

\* C25: a sendEmail call that returns reports one result per recipient in
\* the order of `to`, each with that recipient's address and with what the
\* transport settled with for it, and the two totals add up to the number of
\* recipients, in whatever order the sends settle; once the sends are under
\* way no transport failure makes the call throw.
C25_OneResultPerRecipient ==
    /\ []C25_Returned
    /\ [][\A c \in DOMAIN calls :
            calls[c].pc = "sending" => calls'[c].pc \in {"sending", "returned"}]_vars

\* a returned call for two recipients whose second send settled first and
\* succeeded, and whose first send failed
C25_Witness ==
    \E c \in DOMAIN calls :
        /\ calls[c].op = "sendEmail"
        /\ calls[c].pc = "returned"
        /\ calls[c].to = <<"a@x.com", "b@x.com">>
        /\ calls[c].settled[1].index = 2
        /\ ~calls[c].value[1].results[1].success
        /\ calls[c].value[1].results[1].recipient = "a@x.com"
        /\ calls[c].value[1].results[2].success
        /\ calls[c].value[1].total_accepted_recipients = 1
        /\ calls[c].value[1].total_rejected_recipients = 1

(* ------------------ more properties of the control flow ---------------- *)

\* the lookup of the user's SMTP configuration settled, resolved or rejected
LookupSettled(resolved) ==
    \E k \in EventsOf("lookupEnd") : events[k].resolved = resolved

\* the custom configuration is in use only for a request with a user whose
\* lookup resolved; without it the email sender works with the system
\* configuration of the environment
C26_ConfigInUse ==
    /\ smtpConfig = "config" => (req.user /\ LookupSettled(TRUE))
    /\ \A c \in Recorded :
          (HasOutcome(ResultOf(c), "email") /\ Invoked(c, "email")) =>
              /\ (smtpConfig = "null" /\ ~env.SMTP_CREDENTIALS)
                    => ~ResultOf(c).results["email"].success
              /\ (smtpConfig = "config" /\ ~ResultOf(c).results["email"].success)
                    => ResultOf(c).results["email"].error # MissingSmtpEnvError

C27_NoSenderNumber ==
    ~env.VONAGE_VIRTUAL_NUMBER =>
        /\ \A c \in Recorded : \A channel \in {"call", "sms"} :
              /\ ~Invoked(c, channel)
              /\ (contacts[c] # NullContact /\ contacts[c].phone # Absent) =>
                    /\ HasOutcome(ResultOf(c), channel) =>
                          ResultOf(c).results[channel] =
                              [success |-> FALSE, error |-> NoVonageError]
                    /\ (c <= Len(results) /\ includes(channels, channel)) =>
                          HasOutcome(ResultOf(c), channel)
        /\ \A c \in Recorded :
              (contacts[c] # NullContact /\ contacts[c].email # Absent
                  /\ HasOutcome(ResultOf(c), "email")) =>
                    /\ Invoked(c, "email")
                    /\ Settled(c, "email", ResultOf(c).results["email"].success)
        /\ (Done /\ response.status # 400
               /\ \A c \in DOMAIN contacts : contacts[c] # NullContact)
              => response.status = 200

InvocationsOf(channel) == {k \in EventsOf("invoke") : events[k].channel = channel}

\* C28: in one campaign each sender is invoked at most once for a contact,
\* also when channels holds a channel more than once, and no sender is
\* invoked more often than there are contacts.
C28_AtMostOncePerContact ==
    \A channel \in Range(validChannels) :
        /\ \A k, n \in InvocationsOf(channel) :
              events[k].contact = events[n].contact => k = n
        /\ Cardinality(InvocationsOf(channel)) <= Len(contacts)

\* a finished campaign of two contacts whose channels name sms twice and
\* call once: one sms and one call invocation per contact
C28_Witness ==
    /\ Succeeded
    /\ Len(contacts) = 2
    /\ channels = <<"sms", "call", "sms">>
    /\ Cardinality(InvocationsOf("sms")) = 2
    /\ Invoked(1, "sms")
    /\ Invoked(2, "sms")
    /\ Cardinality(InvocationsOf("call")) = 2

(* ------------------ more properties of the rendering ------------------- *)

\* the email renderer and the call/SMS renderer were given the same
\* template and the same data: the contact's, no global data being given
C29_SameInput(r, emailField, textField) ==
    /\ ~rendering[r].body.emailSubstitutionData.defined
    /\ rendering[r].contact.substitutionData.defined
    /\ TruthyText(emailField)
    /\ emailField = textField

\* C29: the email renderer and the call/SMS renderer return the same text
\* for the same template and the same data.
C29_RenderersAgree ==
    \A r \in Runs :
        /\ (Mailed(r) /\ Called(r)
               /\ C29_SameInput(r, rendering[r].body.emailText, rendering[r].body.callMessage))
              => rendering[r].mailOptions.text = rendering[r].callArgs.text
        /\ (Mailed(r) /\ Texted(r)
               /\ C29_SameInput(r, rendering[r].body.emailSubject, rendering[r].body.smsMessage))
              => rendering[r].mailOptions.subject = rendering[r].smsArgs.text

(* ------------------------------ liveness ------------------------------- *)

\* the request passed the validation and the handler is at work on it
C30_AtWork == pc \in {"smtpWait", "loop", "email", "emailWait", "call", "callWait",
                      "sms", "smsWait", "push", "delayWait"}

\* C30: when every sender invocation and the SMTP lookup settle and every
\* pacing timer fires, executeCampaign, once at work on a valid request,
\* eventually sends its response.
C30_EventuallyResponds == C30_AtWork ~> (response.status \in {200, 500})

\* the response of a campaign that awaited the lookup, a sender for each of
\* two contacts and the pacing timer
C30_Witness ==
    /\ Succeeded
    /\ Len(contacts) = 2
    /\ LookupSettled(TRUE)
    /\ Invoked(1, "email")
    /\ Invoked(2, "email")
    /\ EventsOf("delayEnd") # {}

====
